---- MODULE Spec2Model ----
(***************************************************************************)
(* A model of rows/plugins/plugin_pdf.py: the geometric predicates, the    *)
(* grouping engine (group_objects), the extraction algorithms, the         *)
(* backends' objects() generator and the pdf_table_lines row generator.    *)
(*                                                                         *)
(* Coordinates are integers (the code uses floats; every comparison the    *)
(* model makes is exact on the modelled values).  Python lists are         *)
(* sequences; Python's 0-based indexes are shifted by one.                 *)
(***************************************************************************)
EXTENDS Integers, Sequences, FiniteSets, TLC

(***************************************************************************)
(* Bounds of the model.                                                    *)
(***************************************************************************)
\* Largest number of objects on one page.
MaxObjs == 3
\* Largest coordinate of a grouped object on the axis it is grouped on.
MaxCoord == 2
\* Largest explicit clustering threshold tried (the smallest is -1).
MaxThreshold == 1
\* Largest number of pages of a document.
MaxPages == 3
\* Largest number of objects the engine delivers for one page.
MaxPageObjs == 2
\* Largest number of lines (rows) extracted from one page.
MaxPageLines == 2
\* Largest number of rectangles on a page handed to an extraction algorithm.
MaxRects == 2
\* The geometric predicates are tried on the coordinates 0, 5, ...,
\* 5 * MaxSteps.
MaxSteps == 3
\* Largest numbers of rows and of columns of a grid of text objects.
MaxGridRows == 2
MaxGridCols == 3
\* Largest number of extraction algorithms defined outside the module.
MaxUserClasses == 1
\* Longest text of page numbers tried character by character.
MaxTextLen == 4
\* Largest number of distinct integers a text of page numbers names.
MaxNamed == 8

\* Group.__init__'s default value of its threshold parameter.
DefaultGroupThreshold == 0
\* define_threshold's default proportion, 0.3, as ProportionNum / ProportionDen.
ProportionNum == 3
ProportionDen == 10

VARIABLES
    \* ---- group_objects(axis, objects, threshold) ----
    axis,          \* "x" or "y"
    objects,       \* the input list
    given,         \* the threshold argument of the call: None or a number
    threshold,     \* the local `threshold`: the argument, then the one in use
    groups,        \* the list of groups being merged
    index_1,       \* the outer loop's index (1-based)
    final_index,   \* index of the last group (1-based)
    gpc,           \* "call" | "loop" | "done" | "error"
    result,        \* the list group_objects returns
    \* ---- PDFMinerBackend.objects / PyMuPDFBackend.objects ----
    backend,          \* "pdfminer.six" or "pymupdf"
    number_of_pages,  \* pages of the document
    page_numbers,     \* NoPages (None) or a set of page numbers
    starts_after,     \* NoMatcher (None) or a matcher
    ends_before,      \* NoMatcher (None) or a matcher
    desired_types,    \* "all" or "text" (PDFMINER_ALL_TYPES / PDFMINER_TEXT_TYPES)
    page_number,      \* enumerate(self.pages, start=1)
    layout,           \* what the engine delivers for the current page
    objs,             \* the page's converted, sorted objects
    pos,              \* index in objs of the next object of "for obj in objs"
    objects_in_page,
    started,
    finished,
    yielded,          \* the list handed to the consumer by the pending yield
    bpc,              \* "pages" | "scan" | "yield" | "yielded" | "done"
    \* history of the scan, kept for the properties only
    h_loaded,         \* number of pages scanned so far
    h_yields,         \* number of lists yielded so far
    h_start,          \* <<page, scan index>> of the first starts_after match
    h_cut,            \* <<page, scan index>> of the first ends_before match
    h_early           \* page of the first ends_before match scanned before any starts_after match, or 0
                      \* made once inclusion has begun
    ,
    \* ---- pdf_table_lines ----
    pages_left,    \* lists the `pages` generator has still to yield
    page_index,    \* enumerate(pages); -1 before the first page
    lines,         \* the rows of the current page
    line_index,    \* enumerate(lines)
    header,        \* {} for None, {line} for a captured line
    tpc,           \* "pages" | "lines" | "done"
    \* history of the output, kept for the properties only
    h_first,       \* {} or {<<the first row emitted, its page_index>>}
    h_out,         \* {} or {[row, page_index, line_index]} of the last row emitted
    \* ---- ExtractionAlgorithm(...).get_lines() ----
    algorithm,         \* "y-groups" | "header-position" | "rects-boundaries"
    text_objects,      \* the page's TextObjects, in the backend's order
    rect_objects,      \* the RectObjects among self.objects
    x_threshold,
    y_threshold,
    x_order,
    y_order,
    table_bbox,        \* <<x_min, y_min, x_max, y_max>>
    selected_objects,
    x_intervals,       \* get_lines' local list, in x_order
    y_intervals,       \* get_lines' local list, in y_order
    header_objs,       \* header-position only
    pool,              \* get_lines' local `objs` (the shared get_lines)
    used,              \* header-position only
    line_objs,         \* header-position only
    line,              \* the line being filled
    matrix,            \* `matrix`, or `lines` in header-position
    row_index,         \* position in y_intervals (1-based)
    col_index,         \* position in x_intervals or header_objs (1-based)
    epc,               \* "bbox" | "select" | "intervals" | "rows" | "cells" |
                       \* "done" | "error"
    \* ---- a call of a geometric predicate ----
    call,              \* [min1, max1, min2, max2, threshold]
    predicate,         \* the function called, "" before the call
    returned,          \* {} before the call, then {the value returned}
    \* ---- extract_intervals(text, repeat, sort) ----
    text,              \* the argument, a sequence of characters
    repeat,
    sort,
    values,            \* text.split(",")
    value_index,       \* position in values of the next item (1-based)
    numbers,           \* the local `result`
    ipc,               \* "loop" | "done" | "error"
    \* ---- get_algorithm(algorithm) ----
    classes,               \* the classes defined: id -> [parent, own], own the `name` of the class body
    requested,             \* the argument: [kind |-> "str" | "class" | "other", name]
    available_algorithms,  \* algorithms(): the registered names, in the dict's order
    outcome,               \* {} or {[kind |-> "return" | "raise", ...]}
    apc                    \* "call" | "lookup" | "done"

groupVars == <<axis, objects, given, threshold, groups, index_1, final_index, gpc, result>>

backendVars == <<backend, number_of_pages, page_numbers, starts_after, ends_before,
                 desired_types, page_number, layout, objs, pos, objects_in_page,
                 started, finished, yielded, bpc, h_loaded, h_yields, h_start, h_cut, h_early>>

tableVars == <<pages_left, page_index, lines, line_index, header, tpc, h_first, h_out>>

extractVars == <<algorithm, text_objects, rect_objects, x_threshold, y_threshold,
                 x_order, y_order, table_bbox, selected_objects, x_intervals,
                 y_intervals, header_objs, pool, used, line_objs, line, matrix,
                 row_index, col_index, epc>>

predicateVars == <<call, predicate, returned>>

intervalsVars == <<text, repeat, sort, values, value_index, numbers, ipc>>

registryVars == <<classes, requested, available_algorithms, outcome, apc>>

vars == <<groupVars, backendVars, tableVars, extractVars, predicateVars, intervalsVars,
          registryVars>>

\* What a part of the program leaves alone: the variables of the other parts.
outsideGroup ==
    <<backendVars, tableVars, extractVars, predicateVars, intervalsVars, registryVars>>
outsideBackend ==
    <<groupVars, tableVars, extractVars, predicateVars, intervalsVars, registryVars>>
outsideTable ==
    <<groupVars, backendVars, extractVars, predicateVars, intervalsVars, registryVars>>
outsideExtract ==
    <<groupVars, backendVars, tableVars, predicateVars, intervalsVars, registryVars>>
outsidePredicate ==
    <<groupVars, backendVars, tableVars, extractVars, intervalsVars, registryVars>>
outsideIntervals ==
    <<groupVars, backendVars, tableVars, extractVars, predicateVars, registryVars>>
outsideRegistry ==
    <<groupVars, backendVars, tableVars, extractVars, predicateVars, intervalsVars>>

(***************************************************************************)
(* The values the variables of one part keep while another part runs.      *)
(***************************************************************************)
GroupIdle ==
    /\ axis = "x"
    /\ objects = <<>>
    /\ given = [num |-> 0, den |-> 0]
    /\ threshold = [num |-> 0, den |-> 0]
    /\ groups = <<>>
    /\ index_1 = 0
    /\ final_index = 0
    /\ gpc = "idle"
    /\ result = <<>>

BackendIdle ==
    /\ backend = "pymupdf"
    /\ number_of_pages = 0
    /\ page_numbers = {}
    /\ starts_after = [type |-> "none", value |-> <<>>]
    /\ ends_before = [type |-> "none", value |-> <<>>]
    /\ desired_types = "all"
    /\ page_number = 0
    /\ layout = <<>>
    /\ objs = <<>>
    /\ pos = 0
    /\ objects_in_page = <<>>
    /\ started = FALSE
    /\ finished = FALSE
    /\ yielded = <<>>
    /\ bpc = "idle"
    /\ h_loaded = 0
    /\ h_yields = 0
    /\ h_start = <<0, 0>>
    /\ h_cut = <<0, 0>>
    /\ h_early = 0

TableIdle ==
    /\ pages_left = 0
    /\ page_index = -1
    /\ lines = <<>>
    /\ line_index = 0
    /\ header = {}
    /\ tpc = "idle"
    /\ h_first = {}
    /\ h_out = {}

ExtractIdle ==
    /\ algorithm = "y-groups"
    /\ text_objects = <<>>
    /\ rect_objects = {}
    /\ x_threshold = [num |-> 0, den |-> 0]
    /\ y_threshold = [num |-> 0, den |-> 0]
    /\ x_order = 1
    /\ y_order = 1
    /\ table_bbox = <<0, 0, 0, 0>>
    /\ selected_objects = <<>>
    /\ x_intervals = <<>>
    /\ y_intervals = <<>>
    /\ header_objs = <<>>
    /\ pool = <<>>
    /\ used = <<>>
    /\ line_objs = <<>>
    /\ line = <<>>
    /\ matrix = <<>>
    /\ row_index = 0
    /\ col_index = 0
    /\ epc = "idle"

IntervalsIdle ==
    /\ text = <<>>
    /\ repeat = FALSE
    /\ sort = TRUE
    /\ values = <<>>
    /\ value_index = 0
    /\ numbers = <<>>
    /\ ipc = "idle"

RegistryIdle ==
    /\ classes = <<>>
    /\ requested = [kind |-> "str", name |-> ""]
    /\ available_algorithms = <<>>
    /\ outcome = {}
    /\ apc = "idle"

PredicateIdle ==
    /\ call = [min1 |-> 0, max1 |-> 0, min2 |-> 0, max2 |-> 0,
               threshold |-> [num |-> 0, den |-> 1]]
    /\ predicate = "idle"
    /\ returned = {}

(***************************************************************************)
(* Generic helpers: Python's min(), max(), sorted() and list deletion.     *)
(***************************************************************************)
Range(s) == {s[i] : i \in DOMAIN s}

Min(S) == CHOOSE m \in S : \A n \in S : m <= n
Max(S) == CHOOSE m \in S : \A n \in S : m >= n

\* Python's tuple comparison on pairs of numbers.
PairLess(a, b) == a[1] < b[1] \/ (a[1] = b[1] /\ a[2] < b[2])

\* del s[i]
DelAt(s, i) == [k \in 1..(Len(s) - 1) |-> IF k < i THEN s[k] ELSE s[k + 1]]

\* s with element e inserted so that position i holds it.
InsertAt(s, i, e) ==
    [k \in 1..(Len(s) + 1) |-> IF k < i THEN s[k] ELSE IF k = i THEN e ELSE s[k - 1]]

(***************************************************************************)
(* Positioned objects.  `id` stands for the Python object's identity: no   *)
(* comparison the code makes reads it.                                     *)
(***************************************************************************)
Intervals(m) == {<<a, b>> \in (0..m) \X (0..m) : a <= b}

\* TextObject.bbox / RectObject.bbox / Group.bbox
bbox(o) == <<o.x0, o.y0, o.x1, o.y1>>

(***************************************************************************)
(* Thresholds.  define_threshold returns 0.3 times an average, so a        *)
(* threshold is kept as an exact fraction num/den with den > 0; None is    *)
(* the fraction with den = 0.                                              *)
(***************************************************************************)
Rat(n, d) == [num |-> n, den |-> d]
None == Rat(0, 0)
Num(n) == Rat(n, 1)

\* a/b + c/d
RatAdd(p, q) == Rat(p.num * q.den + q.num * p.den, p.den * q.den)

(***************************************************************************)
(* The geometric predicates.  Each comparison with a threshold t is        *)
(* multiplied through by t.den.                                            *)
(***************************************************************************)
object_intercepts(min1, max1, min2, max2, t) ==
    /\ min1 * t.den < max2 * t.den + t.num
    /\ max1 * t.den > min2 * t.den - t.num

\* Mutant: the bounds of the expanded range are left out.
object_contains_center_exclusive(min1, max1, min2, max2, t) ==
    /\ 2 * (min2 * t.den - t.num) < (min1 + max1) * t.den
    /\ (min1 + max1) * t.den < 2 * (max2 * t.den + t.num)

\* (min2 - t) <= min1 + (max1 - min1) / 2.0 <= (max2 + t), every term doubled:
\* twice the center is 2 * min1 + (max1 - min1).
object_contains_center(min1, max1, min2, max2, t) ==
    /\ 2 * (min2 * t.den - t.num) <= (2 * min1 + (max1 - min1)) * t.den
    /\ (2 * min1 + (max1 - min1)) * t.den <= 2 * (max2 * t.den + t.num)

object_contains(min1, max1, min2, max2, t) ==
    /\ min2 * t.den - t.num <= min1 * t.den
    /\ max1 * t.den <= max2 * t.den + t.num

(***************************************************************************)
(* Group                                                                   *)
(***************************************************************************)
\* Mutant: the envelope is that of the last member only (the boundaries are
\* overwritten instead of being widened).
Group_last_member(lst, t) ==
    [objects   |-> lst,
     x0        |-> lst[Len(lst)].x0,
     x1        |-> lst[Len(lst)].x1,
     y0        |-> lst[Len(lst)].y0,
     y1        |-> lst[Len(lst)].y1,
     threshold |-> t]

\* Group.__init__ with a non-empty list: the envelope of the members
\* (_update_boundaries starting from +-infinity).
Group(lst, t) ==
    [objects   |-> lst,
     x0        |-> Min({lst[i].x0 : i \in DOMAIN lst}),
     x1        |-> Max({lst[i].x1 : i \in DOMAIN lst}),
     y0        |-> Min({lst[i].y0 : i \in DOMAIN lst}),
     y1        |-> Max({lst[i].y1 : i \in DOMAIN lst}),
     threshold |-> t]

(***************************************************************************)
(* group_objects                                                           *)
(***************************************************************************)
\* get_dimensions / get_ordering: the (min, max) of a group or object on ax.
get_dimensions(ax, row) == IF ax = "x" THEN <<row.x0, row.x1>> ELSE <<row.y0, row.y1>>
get_ordering(ax, obj) == IF ax = "x" THEN <<obj.x0, obj.x1>> ELSE <<obj.y0, obj.y1>>
get_other_ordering(ax, obj) == IF ax = "x" THEN <<obj.y0, obj.y1>> ELSE <<obj.x0, obj.x1>>

\* sorted(lst, key=...) is stable: an element goes after every element whose
\* key is not greater.  `k` names the key: "x" is (x0, x1), "y" is (y0, y1).
RECURSIVE sorted(_, _)
sorted(lst, k) ==
    IF lst = <<>> THEN <<>>
    ELSE LET n    == Len(lst)
             head == sorted(SubSeq(lst, 1, n - 1), k)
             e    == lst[n]
             at   == 1 + Cardinality({i \in DOMAIN head :
                                        ~PairLess(get_ordering(k, e), get_ordering(k, head[i]))})
         IN InsertAt(head, at, e)

\* define_threshold: proportion (0.3) times the average of the objects'
\* heights (axis y) or character widths (axis x: width / len(text), 0 for an
\* empty text).  Called with a non-empty list.
RECURSIVE SumValues(_, _)
SumValues(ax, lst) ==
    IF lst = <<>> THEN Rat(0, 1)
    ELSE LET o == Head(lst)
             v == IF ax = "x"
                     THEN (IF Len(o.text) > 0 THEN Rat(o.x1 - o.x0, Len(o.text)) ELSE Rat(0, 1))
                     ELSE Rat(o.y1 - o.y0, 1)
         IN RatAdd(v, SumValues(ax, Tail(lst)))

define_threshold(ax, lst) ==
    LET sum == SumValues(ax, lst)
    IN Rat(ProportionNum * sum.num, ProportionDen * sum.den * Len(lst))

\* Mutant: "if not threshold" instead of "if threshold is None": an explicit
\* threshold of 0 is replaced by the derived one.
EffectiveThreshold_falsy(ax, lst, t) ==
    IF t = None \/ t.num = 0 THEN define_threshold(ax, lst) ELSE t

\* Lines 515-516: the threshold the merge loop uses.
EffectiveThreshold(ax, lst, t) ==
    IF t = None THEN define_threshold(ax, lst) ELSE t

\* Line 516 divides by len(objects): ZeroDivisionError on an empty list.
ThresholdFails(lst, t) == t = None /\ lst = <<>>

\* The seed: one singleton group per object, in the axis' order.
SeedGroups(ax, lst) ==
    LET s == sorted(lst, ax)
    IN [i \in DOMAIN s |-> Group(<<s[i]>>, DefaultGroupThreshold)]

\* check_group on the groups at two indexes.
Intercepting(ax, gs, i, j, t) ==
    LET d1 == get_dimensions(ax, gs[i])
        d2 == get_dimensions(ax, gs[j])
    IN object_intercepts(d1[1], d1[2], d2[1], d2[2], t)

\* The inner for loop: the first index_2 whose group intercepts the group at
\* i, or 0 when the loop runs to its else branch.
FirstMatch(ax, gs, i, fin, t) ==
    LET hits == {j \in (i + 1)..fin : Intercepting(ax, gs, i, j, t)}
    IN IF hits = {} THEN 0 ELSE Min(hits)

\* Mutant of MergeGroups: the members of group_2 are dropped with it.
MergeGroups_drop(gs, i, j) == DelAt(gs, j)

\* Mutant of MergeGroups: the merged group keeps the bounds of group_1.
MergeGroups_stale(gs, i, j) ==
    DelAt([gs EXCEPT ![i] = [gs[i] EXCEPT !.objects = gs[i].objects \o gs[j].objects]], j)

\* "Merge groups": groups[index_1] = Group(g1.objects + g2.objects);
\* del groups[index_2].
MergeGroups(gs, i, j) ==
    DelAt([gs EXCEPT ![i] = Group(gs[i].objects \o gs[j].objects, DefaultGroupThreshold)], j)

\* The whole while loop, from the state <<groups, index_1, final_index>>.
RECURSIVE MergeLoop(_, _, _, _, _)
MergeLoop(ax, gs, i, fin, t) ==
    IF ~(i < fin) THEN gs
    ELSE LET j == FirstMatch(ax, gs, i, fin, t)
         IN IF j = 0 THEN MergeLoop(ax, gs, i + 1, fin, t)
            ELSE MergeLoop(ax, MergeGroups(gs, i, j), i, fin - 1, t)

\* The returned list: every group rebuilt with its members in the other
\* axis' order.
FinalGroups(ax, gs) ==
    [i \in DOMAIN gs |->
        Group(sorted(gs[i].objects, IF ax = "x" THEN "y" ELSE "x"), DefaultGroupThreshold)]

\* group_objects, where it returns (not ThresholdFails).
group_objects(ax, lst, t) ==
    LET gs == SeedGroups(ax, lst)
    IN FinalGroups(ax, MergeLoop(ax, gs, 1, Len(gs), EffectiveThreshold(ax, lst, t)))

(***************************************************************************)
(* Inputs of the grouping engine.                                          *)
(***************************************************************************)
\* The lines of text a grouped object may sit on: its unit interval on the
\* other axis and its text.
SampleLines == {[pos |-> 0, text |-> <<"a", "b">>], [pos |-> 1, text |-> <<>>]}

\* The objects grouped on the axis ax: any interval of 0..MaxCoord on ax, on
\* one of the sample lines.
Boxes(ax) ==
    {IF ax = "x"
        THEN [x0 |-> iv[1], x1 |-> iv[2], y0 |-> l.pos, y1 |-> l.pos + 1, text |-> l.text]
        ELSE [x0 |-> l.pos, x1 |-> l.pos + 1, y0 |-> iv[1], y1 |-> iv[2], text |-> l.text] :
     iv \in Intervals(MaxCoord), l \in SampleLines}

Thresholds == {None} \cup {Num(t) : t \in (-1)..MaxThreshold}

WithId(b, n) ==
    [id |-> n, x0 |-> b.x0, x1 |-> b.x1, y0 |-> b.y0, y1 |-> b.y1, text |-> b.text]

\* A total order on boxes, used only to list each multiset of boxes once; the
\* claims that speak of the input's order quantify over Permutations.
BoxRank(b) ==
    LET m == MaxCoord + 3
    IN (((b.x0 * m + b.x1) * m + b.y0) * m + b.y1) * m + Len(b.text)

\* Lists of at most MaxObjs boxes, one per multiset, listed in descending rank
\* (so that sorted() has work to do on either axis).
BoxLists(ax) ==
    UNION {{s \in [1..n -> Boxes(ax)] :
              \A i \in 1..(n - 1) : BoxRank(s[i]) >= BoxRank(s[i + 1])} : n \in 0..MaxObjs}

ObjectList(s) == [i \in DOMAIN s |-> WithId(s[i], i)]

\* The list lst reordered by the permutation p of its indexes.
Permuted(lst, p) == [i \in DOMAIN lst |-> lst[p[i]]]

IndexPermutations(lst) == Permutations(DOMAIN lst)

(***************************************************************************)
(* group_objects as a state machine: one step per pass of the while loop.  *)
(***************************************************************************)
GroupInit ==
    /\ axis \in {"x", "y"}
    /\ given \in Thresholds
    /\ threshold = given
    /\ \E s \in BoxLists(axis) : objects = ObjectList(s)
    /\ groups = <<>>
    /\ index_1 = 0
    /\ final_index = 0
    /\ gpc = "call"
    /\ result = <<>>
    /\ BackendIdle
    /\ TableIdle
    /\ ExtractIdle
    /\ PredicateIdle
    /\ IntervalsIdle
    /\ RegistryIdle

\* Lines 515-528: the threshold is derived when it is None; the seed and the
\* indexes.
GroupSeed ==
    /\ gpc = "call"
    /\ ~ThresholdFails(objects, threshold)
    /\ threshold' = EffectiveThreshold(axis, objects, threshold)
    /\ groups' = SeedGroups(axis, objects)
    /\ index_1' = 1
    /\ final_index' = Len(objects)
    /\ gpc' = "loop"
    /\ UNCHANGED <<axis, objects, given, result>>
    /\ UNCHANGED outsideGroup

\* Line 516 raises: no threshold can be derived from an empty list.
GroupFail ==
    /\ gpc = "call"
    /\ ThresholdFails(objects, threshold)
    /\ gpc' = "error"
    /\ UNCHANGED <<axis, objects, given, threshold, groups, index_1, final_index, result>>
    /\ UNCHANGED outsideGroup

\* Lines 529-539: a pass of the while loop that finds a match and merges.
GroupMerge ==
    /\ gpc = "loop"
    /\ index_1 < final_index
    /\ FirstMatch(axis, groups, index_1, final_index, threshold) # 0
    /\ groups' = MergeGroups(groups, index_1,
                             FirstMatch(axis, groups, index_1, final_index, threshold))
    /\ final_index' = final_index - 1
    /\ UNCHANGED <<axis, objects, given, threshold, index_1, gpc, result>>
    /\ UNCHANGED outsideGroup

\* Lines 540-541: a pass that finds none and advances index_1.
GroupAdvance ==
    /\ gpc = "loop"
    /\ index_1 < final_index
    /\ FirstMatch(axis, groups, index_1, final_index, threshold) = 0
    /\ index_1' = index_1 + 1
    /\ UNCHANGED <<axis, objects, given, threshold, groups, final_index, gpc, result>>
    /\ UNCHANGED outsideGroup

\* Lines 543-546: the loop has ended; the groups are rebuilt and returned.
GroupReturn ==
    /\ gpc = "loop"
    /\ ~(index_1 < final_index)
    /\ result' = FinalGroups(axis, groups)
    /\ gpc' = "done"
    /\ UNCHANGED <<axis, objects, given, threshold, groups, index_1, final_index>>
    /\ UNCHANGED outsideGroup

GroupNext == GroupSeed \/ GroupFail \/ GroupMerge \/ GroupAdvance \/ GroupReturn

SpecGroup == GroupInit /\ [][GroupNext]_vars

(***************************************************************************)
(* Properties of group_objects                                             *)
(***************************************************************************)
\* A list of groups as a set of sets of member objects.
MemberSets(gs) == {Range(gs[i].objects) : i \in DOMAIN gs}

\* C1: group_objects is order-independent: every permutation of the input
\* list yields the same final set of groups, each group compared as the set
\* of its member objects.
C1_OrderIndependent ==
    (gpc = "done" /\ given # None) =>
        \A p \in IndexPermutations(objects) :
            MemberSets(group_objects(axis, Permuted(objects, p), given))
                = MemberSets(result)

\* Witness for C1: a finished run that merged some objects and left others
\* apart, on an input with two objects of equal (min, max) on the axis, so
\* that permuting the input changes the order of the seed.
C1_Witness ==
    /\ gpc = "done"
    /\ given # None
    /\ Len(objects) = 3
    /\ Len(result) = 2
    /\ \E i, j \in DOMAIN objects :
          i # j /\ get_ordering(axis, objects[i]) = get_ordering(axis, objects[j])

\* C2: grouping idempotence: the members of any group returned for an explicit
\* threshold, grouped again with the same threshold, give exactly one group
\* with the same envelope.
C2_Idempotent ==
    (gpc = "done" /\ given # None) =>
        \A i \in DOMAIN result :
            LET again == group_objects(axis, result[i].objects, given)
            IN /\ Len(again) = 1
               /\ bbox(again[1]) = bbox(result[i])

\* Witness for C2: a returned group of several members next to another group.
C2_Witness ==
    /\ gpc = "done"
    /\ given # None
    /\ \E i \in DOMAIN result : Len(result[i].objects) >= 2
    /\ Len(result) >= 2

(***************************************************************************)
(* The backends: get_check_object_function and objects().                  *)
(***************************************************************************)
\* str.strip() on a text without inner line breaks: leading and trailing
\* blanks are removed.
RECURSIVE lstrip(_)
lstrip(txt) == IF txt # <<>> /\ Head(txt) = " " THEN lstrip(Tail(txt)) ELSE txt

RECURSIVE rstrip(_)
rstrip(txt) ==
    IF txt # <<>> /\ txt[Len(txt)] = " " THEN rstrip(SubSeq(txt, 1, Len(txt) - 1)) ELSE txt

strip(txt) == rstrip(lstrip(txt))

\* pattern.search(txt) for a pattern that is a literal text.
search(pattern, txt) ==
    \E i \in 1..(Len(txt) - Len(pattern) + 1) :
        SubSeq(txt, i, i + Len(pattern) - 1) = pattern

\* The matchers: None, an exact string, a compiled pattern, a function.
NoMatcher == [type |-> "none", value |-> <<>>]
StrMatcher(v) == [type |-> "str", value |-> v]
ReMatcher(v) == [type |-> "re", value |-> v]
FnMatcher(v) == [type |-> "fn", value |-> v]

\* The callables tried: lambda obj: obj.y0 >= 1
CallMatcher(name, obj) == name = <<"y0 >= 1">> /\ obj.y0 >= 1

\* get_check_object_function(value)(obj)
check_object(m, obj) ==
    CASE m.type = "str" -> obj.kind = "text" /\ strip(obj.text) = strip(m.value)
      [] m.type = "re"  -> obj.kind = "text" /\ search(m.value, strip(obj.text))
      [] m.type = "fn"  -> CallMatcher(m.value, obj)

\* Mutant: the object that matches ends_before is appended before the break.
LoopBody_end_inclusive(st, fin, oip, obj, sa, eb) ==
    LET st1 == st \/ (~st /\ sa # NoMatcher /\ check_object(sa, obj))
        hit == st1 /\ eb # NoMatcher /\ check_object(eb, obj)
    IN [started         |-> st1,
        finished        |-> fin \/ hit,
        brk             |-> hit,
        objects_in_page |-> IF st1 THEN Append(oip, obj) ELSE oip]

\* Mutant: inclusion starts on the object after the one starts_after matches.
LoopBody_start_exclusive(st, fin, oip, obj, sa, eb) ==
    LET st1 == st \/ (~st /\ sa # NoMatcher /\ check_object(sa, obj))
        hit == st /\ eb # NoMatcher /\ check_object(eb, obj)
    IN [started         |-> st1,
        finished        |-> fin \/ hit,
        brk             |-> hit,
        objects_in_page |-> IF hit THEN oip ELSE IF st THEN Append(oip, obj) ELSE oip]

\* Mutant of LoopBody: ends_before is tested whether or not inclusion has
\* started.
LoopBody_end_unguarded(st, fin, oip, obj, sa, eb) ==
    LET st1 == st \/ (~st /\ sa # NoMatcher /\ check_object(sa, obj))
        hit == eb # NoMatcher /\ check_object(eb, obj)
    IN [started         |-> st1,
        finished        |-> fin \/ hit,
        brk             |-> hit,
        objects_in_page |-> IF hit THEN oip ELSE IF st1 THEN Append(oip, obj) ELSE oip]

\* The body of "for obj in objs" (lines 247-257 and 346-353): the new values
\* of started, finished and objects_in_page, and whether the loop breaks.
LoopBody(st, fin, oip, obj, sa, eb) ==
    LET st1 == st \/ (~st /\ sa # NoMatcher /\ check_object(sa, obj))
        hit == st1 /\ eb # NoMatcher /\ check_object(eb, obj)
    IN [started         |-> st1,
        finished        |-> fin \/ hit,
        brk             |-> hit,
        objects_in_page |-> IF hit THEN oip ELSE IF st1 THEN Append(oip, obj) ELSE oip]

\* list.sort(key=...) is stable: position r holds the element that has r - 1
\* elements before it in (key, index) order.
StableSort(lst, keys) ==
    LET Before(j, i) == PairLess(keys[j], keys[i]) \/ (keys[j] = keys[i] /\ j < i)
        Rank(i) == 1 + Cardinality({j \in DOMAIN lst : Before(j, i)})
    IN [r \in DOMAIN lst |-> lst[CHOOSE i \in DOMAIN lst : Rank(i) = r]]

\* The sort keys: lambda obj: -obj.y0 (pdfminer.six), (obj.y0, obj.x0) (pymupdf).
PDFMinerKey(obj) == <<0 - obj.y0, 0>>
PyMuPDFKey(obj) == <<obj.y0, obj.x0>>

\* s without the elements that fail Keep, in order.
RECURSIVE SelectIdx(_, _, _)
SelectIdx(lst, keep, i) ==
    IF i > Len(lst) THEN <<>>
    ELSE (IF i \in keep THEN <<lst[i]>> ELSE <<>>) \o SelectIdx(lst, keep, i + 1)

\* What the engine delivers is a list of [kind, x0, y0, raw]: a text ("text"),
\* a rectangle ("rect", pdfminer.six) or an image block ("image", pymupdf).
\* `id` is the index in the engine's list.
\* PDFMinerBackend.convert_object and the isinstance filter of line 243.
PDFMinerObjects(lay, desired) ==
    LET keep == {i \in DOMAIN lay :
                    lay[i].kind = "text" \/ (lay[i].kind = "rect" /\ desired = "all")}
        conv(o) == [id |-> o.id, kind |-> o.kind, x0 |-> o.x0, y0 |-> o.y0, text |-> o.raw]
        kept == SelectIdx(lay, keep, 1)
    IN [i \in DOMAIN kept |-> conv(kept[i])]

\* Lines 319-342: blocks that are not text are skipped; the text of a line of
\* one single-line span is that span's text, stripped.
PyMuPDFObjects(lay) ==
    LET keep == {i \in DOMAIN lay : lay[i].kind = "text"}
        conv(o) == [id |-> o.id, kind |-> "text", x0 |-> o.x0, y0 |-> o.y0,
                    text |-> strip(o.raw)]
        kept == SelectIdx(lay, keep, 1)
    IN [i \in DOMAIN kept |-> conv(kept[i])]

\* The page's objects as the windowing loop scans them (lines 243-244, 343).
PageObjects(be, lay, desired) ==
    IF be = "pdfminer.six"
        THEN LET conv == PDFMinerObjects(lay, desired)
             IN StableSort(conv, [i \in DOMAIN conv |-> PDFMinerKey(conv[i])])
        ELSE LET conv == PyMuPDFObjects(lay)
             IN StableSort(conv, [i \in DOMAIN conv |-> PyMuPDFKey(conv[i])])

(***************************************************************************)
(* Inputs of the backends.                                                 *)
(***************************************************************************)
SamplePositions == {[x0 |-> 1, y0 |-> 0], [x0 |-> 0, y0 |-> 0], [x0 |-> 0, y0 |-> 1]}
SampleTexts == {<<"S">>, <<"E", " ">>, <<"a">>}

EngineObjects(be) ==
    {[kind |-> "text", x0 |-> p.x0, y0 |-> p.y0, raw |-> t] :
        p \in SamplePositions, t \in SampleTexts}
    \cup {[kind |-> IF be = "pdfminer.six" THEN "rect" ELSE "image",
           x0 |-> 0, y0 |-> 1, raw |-> <<>>]}

EngineLayouts(be) ==
    UNION {{[i \in 1..n |-> [id |-> i, kind |-> l[i].kind, x0 |-> l[i].x0,
                              y0 |-> l[i].y0, raw |-> l[i].raw]] :
              l \in [1..n -> EngineObjects(be)]} : n \in 0..MaxPageObjs}

StartMatchers == {NoMatcher, StrMatcher(<<"S", " ">>), FnMatcher(<<"y0 >= 1">>)}
EndMatchers == {NoMatcher, StrMatcher(<<"E">>), ReMatcher(<<"S">>)}

\* page_numbers: None, or a list of page numbers.
NoPages == {0}
PageNumberChoices == {NoPages, {2}, {1, 3}}

(***************************************************************************)
(* objects() as a state machine.                                           *)
(***************************************************************************)
BackendInit ==
    /\ backend \in {"pdfminer.six", "pymupdf"}
    /\ number_of_pages \in 0..MaxPages
    /\ page_numbers \in PageNumberChoices
    /\ starts_after \in StartMatchers
    /\ ends_before \in EndMatchers
    /\ desired_types \in IF backend = "pdfminer.six" THEN {"all", "text"} ELSE {"all"}
    /\ page_number = 0
    /\ layout = <<>>
    /\ objs = <<>>
    /\ pos = 0
    /\ objects_in_page = <<>>
    \* Lines 229-231 and 308-310.
    /\ started = (starts_after = NoMatcher)
    /\ finished = FALSE
    /\ yielded = <<>>
    /\ bpc = "pages"
    /\ h_loaded = 0
    /\ h_yields = 0
    /\ h_start = <<0, 0>>
    /\ h_cut = <<0, 0>>
    /\ h_early = 0
    /\ GroupIdle
    /\ TableIdle
    /\ ExtractIdle
    /\ PredicateIdle
    /\ IntervalsIdle
    /\ RegistryIdle

\* Lines 237-239 and 316-318: a page that page_numbers leaves out.
SkipPage ==
    /\ bpc = "pages"
    /\ page_number < number_of_pages
    /\ page_numbers # NoPages /\ (page_number + 1) \notin page_numbers
    /\ page_number' = page_number + 1
    /\ UNCHANGED <<backend, number_of_pages, page_numbers, starts_after, ends_before,
                   desired_types, layout, objs, pos, objects_in_page, started, finished,
                   yielded, bpc, h_loaded, h_yields, h_start, h_cut, h_early>>
    /\ UNCHANGED outsideBackend

\* Lines 241-245 and 319-344: the page's objects are read, converted and
\* sorted.
LoadPage ==
    /\ bpc = "pages"
    /\ page_number < number_of_pages
    /\ page_numbers = NoPages \/ (page_number + 1) \in page_numbers
    /\ page_number' = page_number + 1
    /\ \E lay \in EngineLayouts(backend) :
          /\ layout' = lay
          /\ objs' = PageObjects(backend, lay, desired_types)
    /\ pos' = 1
    /\ objects_in_page' = <<>>
    /\ bpc' = "scan"
    /\ h_loaded' = h_loaded + 1
    /\ UNCHANGED <<backend, number_of_pages, page_numbers, starts_after, ends_before,
                   desired_types, started, finished, yielded, h_yields, h_start, h_cut, h_early>>
    /\ UNCHANGED outsideBackend

\* One pass of "for obj in objs" (lines 246-257 and 345-353).
ScanObject ==
    /\ bpc = "scan"
    /\ pos <= Len(objs)
    /\ LET obj   == objs[pos]
           r     == LoopBody(started, finished, objects_in_page, obj, starts_after, ends_before)
           begun == starts_after = NoMatcher \/ h_start # <<0, 0>>
                       \/ check_object(starts_after, obj)
       IN /\ started' = r.started
          /\ finished' = r.finished
          /\ objects_in_page' = r.objects_in_page
          /\ bpc' = IF r.brk THEN "yield" ELSE "scan"
          /\ pos' = IF r.brk THEN pos ELSE pos + 1
          /\ h_start' = IF h_start = <<0, 0>> /\ starts_after # NoMatcher
                             /\ check_object(starts_after, obj)
                           THEN <<h_loaded, pos>> ELSE h_start
          /\ h_cut' = IF h_cut = <<0, 0>> /\ begun /\ ends_before # NoMatcher
                           /\ check_object(ends_before, obj)
                         THEN <<h_loaded, pos>> ELSE h_cut
          /\ h_early' = IF h_early = 0 /\ ~begun /\ ends_before # NoMatcher
                             /\ check_object(ends_before, obj)
                           THEN h_loaded ELSE h_early
    /\ UNCHANGED <<backend, number_of_pages, page_numbers, starts_after, ends_before,
                   desired_types, page_number, layout, objs, yielded, h_loaded, h_yields>>
    /\ UNCHANGED outsideBackend

\* The for loop has run through the page's objects.
EndOfPage ==
    /\ bpc = "scan"
    /\ pos > Len(objs)
    /\ bpc' = "yield"
    /\ UNCHANGED <<backend, number_of_pages, page_numbers, starts_after, ends_before,
                   desired_types, page_number, layout, objs, pos, objects_in_page,
                   started, finished, yielded, h_loaded, h_yields, h_start, h_cut, h_early>>
    /\ UNCHANGED outsideBackend

\* Lines 258 and 355: yield objects_in_page.
YieldPage ==
    /\ bpc = "yield"
    /\ yielded' = objects_in_page
    /\ bpc' = "yielded"
    /\ h_yields' = h_yields + 1
    /\ UNCHANGED <<backend, number_of_pages, page_numbers, starts_after, ends_before,
                   desired_types, page_number, layout, objs, pos, objects_in_page,
                   started, finished, h_loaded, h_start, h_cut, h_early>>
    /\ UNCHANGED outsideBackend

\* The consumer asks for the next list: lines 260-261 and 357-358 end the
\* generator when finished is set, else the page loop goes on.
Resume ==
    /\ bpc = "yielded"
    /\ bpc' = IF finished THEN "done" ELSE "pages"
    /\ yielded' = <<>>
    /\ layout' = <<>>
    /\ objs' = <<>>
    /\ pos' = 0
    /\ objects_in_page' = <<>>
    /\ UNCHANGED <<backend, number_of_pages, page_numbers, starts_after, ends_before,
                   desired_types, page_number, started, finished,
                   h_loaded, h_yields, h_start, h_cut, h_early>>
    /\ UNCHANGED outsideBackend

\* self.pages is exhausted: the generator returns.
Exhausted ==
    /\ bpc = "pages"
    /\ page_number = number_of_pages
    /\ bpc' = "done"
    /\ UNCHANGED <<backend, number_of_pages, page_numbers, starts_after, ends_before,
                   desired_types, page_number, layout, objs, pos, objects_in_page,
                   started, finished, yielded, h_loaded, h_yields, h_start, h_cut, h_early>>
    /\ UNCHANGED outsideBackend

BackendNext == SkipPage \/ LoadPage \/ ScanObject \/ EndOfPage \/ YieldPage \/ Resume \/ Exhausted

SpecBackend == BackendInit /\ [][BackendNext]_vars

(***************************************************************************)
(* Properties of objects()                                                 *)
(***************************************************************************)
\* The page being scanned or yielded is the one the history pair h is about.
OnPageOf(h) == h # <<0, 0>> /\ h_loaded = h[1] /\ bpc \in {"scan", "yield", "yielded"}

\* The objects of the current page handed out or about to be.
Included == Range(objects_in_page) \cup Range(yielded)

\* C4: once inclusion has begun, the first object that matches ends_before is
\* not included, no object after it on that page is included, the page's
\* truncated list is still yielded, and no later page is scanned or yielded.
C4_EndsBeforeCuts ==
    h_cut # <<0, 0>> =>
        /\ h_loaded = h_cut[1]
        /\ bpc \in {"yield", "yielded", "done"}
        /\ h_yields <= h_loaded
        /\ bpc # "done" => \A k \in DOMAIN objs : k >= h_cut[2] => objs[k] \notin Included
        /\ bpc = "yielded" => yielded = objects_in_page
        /\ bpc = "done" => h_yields = h_loaded

\* Witness for C4: the cut is made on the first object of the second scanned
\* page, after a starts_after match; an object follows it on the page and
\* pages follow in the document; the truncated list has been yielded.
C4_Witness ==
    /\ bpc = "yielded"
    /\ starts_after # NoMatcher
    /\ h_cut = <<2, 1>>
    /\ Len(objs) = 2
    /\ page_number < number_of_pages

SampleRows == {<<"name", "qty">>, <<"x", "1">>}

PageLines == UNION {[1..n -> SampleRows] : n \in 0..MaxPageLines}

TableInit ==
    /\ pages_left \in 0..MaxPages
    /\ page_index = -1
    /\ lines = <<>>
    /\ line_index = 0
    \* Line 868.
    /\ header = {}
    /\ tpc = "pages"
    /\ h_first = {}
    /\ h_out = {}
    /\ GroupIdle
    /\ BackendIdle
    /\ ExtractIdle
    /\ PredicateIdle
    /\ IntervalsIdle
    /\ RegistryIdle

\* Lines 869-873: the next page is taken from `pages` and its rows extracted.
NextTablePage ==
    /\ tpc = "pages"
    /\ pages_left > 0
    /\ pages_left' = pages_left - 1
    /\ page_index' = page_index + 1
    /\ lines' \in PageLines
    /\ line_index' = 0
    /\ tpc' = "lines"
    /\ UNCHANGED <<header, h_first, h_out>>
    /\ UNCHANGED outsideTable

\* Lines 875-881, when line 880 is not reached: the header is captured on the
\* first line of the first page, and the line is yielded.
YieldLine ==
    /\ tpc = "lines"
    /\ line_index < Len(lines)
    /\ LET cur == lines[line_index + 1]
       IN /\ ~(line_index = 0 /\ page_index > 0 /\ header = {cur})
          /\ header' = IF line_index = 0 /\ page_index = 0 THEN {cur} ELSE header
          /\ h_first' = IF h_first = {} THEN {<<cur, page_index>>} ELSE h_first
          /\ h_out' = {[row |-> cur, page_index |-> page_index, line_index |-> line_index]}
    /\ line_index' = line_index + 1
    /\ UNCHANGED <<pages_left, page_index, lines, tpc>>
    /\ UNCHANGED outsideTable

\* Lines 879-880: the first line of a later page equals the header: continue.
SkipRepeatedHeader ==
    /\ tpc = "lines"
    /\ line_index < Len(lines)
    /\ line_index = 0 /\ page_index > 0 /\ header = {lines[line_index + 1]}
    /\ line_index' = line_index + 1
    /\ UNCHANGED <<pages_left, page_index, lines, header, tpc, h_first, h_out>>
    /\ UNCHANGED outsideTable

\* The page's lines are exhausted.
EndOfLines ==
    /\ tpc = "lines"
    /\ line_index = Len(lines)
    /\ tpc' = "pages"
    /\ UNCHANGED <<pages_left, page_index, lines, line_index, header, h_first, h_out>>
    /\ UNCHANGED outsideTable

\* `pages` is exhausted.
TableDone ==
    /\ tpc = "pages"
    /\ pages_left = 0
    /\ tpc' = "done"
    /\ UNCHANGED <<pages_left, page_index, lines, line_index, header, h_first, h_out>>
    /\ UNCHANGED outsideTable

TableNext == NextTablePage \/ YieldLine \/ SkipRepeatedHeader \/ EndOfLines \/ TableDone

SpecTable == TableInit /\ [][TableNext]_vars

(***************************************************************************)
(* Properties of pdf_table_lines                                           *)
(***************************************************************************)
\* C3: the first row emitted is the header, and the first line of a later
\* page is never emitted when it is identical to that header, whatever the
\* pages are (the first page may have no lines).
C3_HeaderDropped ==
    \A f \in h_first :
        /\ header = {f[1]}
        /\ \A o \in h_out :
              (o.page_index > f[2] /\ o.line_index = 0) => o.row # f[1]

(***************************************************************************)
(* The extraction algorithms: helpers                                      *)
(***************************************************************************)
\* TextObject is a dataclass: == compares the fields, not the identity.
SameValue(a, b) == [a EXCEPT !.id = 0] = [b EXCEPT !.id = 0]

\* obj in lst
InList(obj, lst) == \E i \in DOMAIN lst : SameValue(lst[i], obj)

\* lst.remove(obj): the first element equal to obj is deleted.
Remove(lst, obj) == DelAt(lst, Min({i \in DOMAIN lst : SameValue(lst[i], obj)}))

\* Mutant: the cell's objects are left in the working list.
RemoveAll_keep(lst, cell) == lst

\* Lines 648-649: for obj in cell: objs.remove(obj)
RECURSIVE RemoveAll(_, _)
RemoveAll(lst, cell) ==
    IF cell = <<>> THEN lst ELSE RemoveAll(Remove(lst, Head(cell)), Tail(cell))

\* list(reversed(s))
Reversed(s) == [i \in DOMAIN s |-> s[Len(s) + 1 - i]]

\* The intervals as get_lines walks them (lines 631-636, 725-727).
InOrder(s, order) == IF order = -1 THEN Reversed(s) ELSE s

\* sorted() of a set of pairs.
SortedPairs(S) ==
    [r \in 1..Cardinality(S) |->
        CHOOSE q \in S : Cardinality({e \in S : PairLess(e, q)}) = r - 1]

\* The envelope of a non-empty set of objects, as a bbox.
Envelope(S) ==
    <<Min({o.x0 : o \in S}), Min({o.y0 : o \in S}),
      Max({o.x1 : o \in S}), Max({o.y1 : o \in S})>>

contains_or_overlap(a, b) ==
    LET x1min == a[1]  y1min == a[2]  x1max == a[3]  y1max == a[4]
        x2min == b[1]  y2min == b[2]  x2max == b[3]  y2max == b[4]
        contains == x2min >= x1min /\ x2max <= x1max /\ y2min >= y1min /\ y2max <= y1max
        overlaps ==
            \/ (x1min <= x2min /\ x2min <= x1max /\ y1min <= y2min /\ y2min <= y1max)
            \/ (x1min <= x2min /\ x2min <= x1max /\ y1min <= y2max /\ y2max <= y1max)
            \/ (x1min <= x2max /\ x2max <= x1max /\ y1min <= y2min /\ y2min <= y1max)
            \/ (x1min <= x2max /\ x2max <= x1max /\ y1min <= y2max /\ y2max <= y1max)
    IN contains \/ overlaps

(***************************************************************************)
(* table_bbox, selected_objects and the intervals                          *)
(***************************************************************************)
\* self.rects (line 760).
Rects(ros) == {r \in ros : r.fill}

\* Mutant: a floating text object (a y-group of one) is kept.
YGroups_table_bbox_floating(tos, yt) ==
    LET gs == group_objects("y", tos, yt)
        desired_objs == UNION {Range(gs[i].objects) : i \in DOMAIN gs}
    IN IF desired_objs = {} THEN <<0, 0, 0, 0>> ELSE Envelope(desired_objs)

\* YGroupsAlgorithm.table_bbox, where group_objects returns.
YGroups_table_bbox(tos, yt) ==
    LET gs == group_objects("y", tos, yt)
        desired_objs ==
            UNION {Range(gs[i].objects) : i \in {k \in DOMAIN gs : ~(Len(gs[k].objects) < 2)}}
    IN IF desired_objs = {} THEN <<0, 0, 0, 0>> ELSE Envelope(desired_objs)

\* RectsBoundariesAlgorithm.table_bbox, where min() and max() return.
Rects_table_bbox(ros) == Envelope(Rects(ros))

\* table_bbox is a cached property that only the condition of line 628
\* reads, once per text object: it is evaluated iff there is a text object.
TableBBoxRead(tos) == tos # <<>>

\* group_objects raises ZeroDivisionError (y-groups, header-position); min()
\* of an empty sequence raises ValueError (rects-boundaries).
TableBBoxFails(alg, tos, ros, yt) ==
    /\ TableBBoxRead(tos)
    /\ IF alg = "rects-boundaries" THEN Rects(ros) = {} ELSE ThresholdFails(tos, yt)

\* Line 628.
SelectedObjects(tos, tb) ==
    SelectIdx(tos, {i \in DOMAIN tos : contains_or_overlap(tb, bbox(tos[i]))}, 1)

\* YGroupsAlgorithm.x_intervals / y_intervals, where define_threshold returns.
YGroups_intervals(ax, sel, t) ==
    LET gs == group_objects(ax, sel, IF t # None THEN t ELSE define_threshold(ax, sel))
    IN [i \in DOMAIN gs |-> get_dimensions(ax, gs[i])]

\* Mutant: only a strictly smaller interval counts as contained.
clean_intersections_strict(S) ==
    {l \in S : ~\E line2 \in S : l # line2 /\ l[1] > line2[1] /\ l[2] < line2[2]}

\* RectsBoundariesAlgorithm._clean_intersections on a set of (min, max).
clean_intersections(S) ==
    {l \in S : ~\E line2 \in S : l # line2 /\ l[1] >= line2[1] /\ l[2] <= line2[2]}

\* RectsBoundariesAlgorithm.x_intervals / y_intervals.
Rects_intervals(ax, ros) ==
    SortedPairs(clean_intersections({get_dimensions(ax, r) : r \in Rects(ros)}))

\* The x or y intervals of the algorithm.
AlgIntervals(alg, ax, sel, ros, t) ==
    IF alg = "rects-boundaries" THEN Rects_intervals(ax, ros) ELSE YGroups_intervals(ax, sel, t)

\* Line 724: objects.sort(key=lambda obj: obj.x0)
SortedByX0(lst) == StableSort(lst, [i \in DOMAIN lst |-> <<lst[i].x0, 0>>])

\* Line 643: the objects of the working list that fall in a cell.
Cell(lst, xi, yi) ==
    SelectIdx(lst, {i \in DOMAIN lst : /\ xi[1] <= lst[i].x0 /\ lst[i].x0 <= xi[2]
                                       /\ yi[1] <= lst[i].y0 /\ lst[i].y0 <= yi[2]}, 1)

\* Lines 731, 739: the objects not yet used whose y0 falls in the interval.
LineObjs(lst, usd, yi) ==
    SelectIdx(lst, {i \in DOMAIN lst : /\ ~InList(lst[i], usd)
                                       /\ yi[1] <= lst[i].y0 /\ lst[i].y0 <= yi[2]}, 1)

\* Lines 735-736.
x_intersects(a, b) == a.x0 < b.x1 /\ a.x1 > b.x0

\* Line 742.
YObjs(lobjs, usd, column) ==
    SelectIdx(lobjs, {i \in DOMAIN lobjs : /\ ~InList(lobjs[i], usd)
                                           /\ x_intersects(column, lobjs[i])}, 1)

(***************************************************************************)
(* Inputs of the extraction algorithms: a page as a backend delivers it.   *)
(***************************************************************************)
XSpans == {<<0, 1>>, <<1, 2>>, <<0, 3>>}
YSpans == {<<0, 1>>, <<1, 2>>}

TextBoxes ==
    {[x0 |-> xs[1], x1 |-> xs[2], y0 |-> ys[1], y1 |-> ys[2], text |-> <<"a">>] :
        xs \in XSpans, ys \in YSpans}

\* The backends: their name and class attributes x_order, y_order (lines
\* 133-134, 178).
Backends ==
    {[name |-> "pdfminer.six", x_order |-> 1, y_order |-> -1],
     [name |-> "pymupdf", x_order |-> 1, y_order |-> 1]}

\* The sort key objects() applies before it yields a page (lines 244, 343).
BackendKey(be, obj) == IF be = "pdfminer.six" THEN PDFMinerKey(obj) ELSE PyMuPDFKey(obj)

\* The lists of text objects a backend can yield: sorted on its key.
TextLists(be) ==
    UNION {{t \in [1..n -> TextBoxes] :
              \A i \in 1..(n - 1) : ~PairLess(BackendKey(be, t[i + 1]), BackendKey(be, t[i]))} :
           n \in 0..MaxObjs}

\* The rectangles: filled ones on the text's grid, and an unfilled frame.
RectObjects ==
    {[x0 |-> xs[1], x1 |-> xs[2], y0 |-> ys[1], y1 |-> ys[2], fill |-> TRUE] :
        xs \in XSpans, ys \in YSpans}
    \cup {[x0 |-> 0, x1 |-> 3, y0 |-> 0, y1 |-> 2, fill |-> FALSE]}

\* pymupdf yields text objects only (lines 319-342).
RectSets(be) ==
    IF be = "pymupdf" THEN {{}}
    ELSE {S \in SUBSET RectObjects : Cardinality(S) <= MaxRects}

\* The thresholds passed to pdf_table_lines: None or a number.
ExtractThresholds == {None, Num(0), Num(1)}

Algorithms == {"y-groups", "header-position", "rects-boundaries"}

(***************************************************************************)
(* get_lines, step by step                                                 *)
(***************************************************************************)
\* Line 872: the algorithm is built on a page's objects.  A threshold or a
\* rectangle the algorithm never reads is left at one value.
ExtractInit ==
    /\ algorithm \in Algorithms
    /\ \E be \in Backends :
          /\ x_order = be.x_order
          /\ y_order = be.y_order
          /\ \E t \in TextLists(be.name) : text_objects = ObjectList(t)
          /\ IF algorithm = "rects-boundaries"
                THEN rect_objects \in RectSets(be.name)
                ELSE rect_objects = {}
    /\ IF algorithm = "y-groups" THEN x_threshold \in ExtractThresholds ELSE x_threshold = Num(0)
    /\ IF algorithm = "rects-boundaries"
          THEN y_threshold = Num(0)
          ELSE y_threshold \in ExtractThresholds
    /\ table_bbox = <<0, 0, 0, 0>>
    /\ selected_objects = <<>>
    /\ x_intervals = <<>>
    /\ y_intervals = <<>>
    /\ header_objs = <<>>
    /\ pool = <<>>
    /\ used = <<>>
    /\ line_objs = <<>>
    /\ line = <<>>
    /\ matrix = <<>>
    /\ row_index = 0
    /\ col_index = 0
    /\ epc = "bbox"
    /\ GroupIdle
    /\ BackendIdle
    /\ TableIdle
    /\ PredicateIdle
    /\ IntervalsIdle
    /\ RegistryIdle

\* table_bbox (lines 664-677, 762-768), when line 628 reads it; it is left
\* unevaluated otherwise.
ComputeTableBBox ==
    /\ epc = "bbox"
    /\ ~TableBBoxFails(algorithm, text_objects, rect_objects, y_threshold)
    /\ table_bbox' = IF ~TableBBoxRead(text_objects) THEN table_bbox
                     ELSE IF algorithm = "rects-boundaries"
                        THEN Rects_table_bbox(rect_objects)
                        ELSE YGroups_table_bbox(text_objects, y_threshold)
    /\ epc' = "select"
    /\ UNCHANGED <<algorithm, text_objects, rect_objects, x_threshold, y_threshold,
                   x_order, y_order, selected_objects, x_intervals, y_intervals,
                   header_objs, pool, used, line_objs, line, matrix, row_index, col_index>>
    /\ UNCHANGED outsideExtract

\* selected_objects (line 628); header-position sorts the list in place
\* (lines 723-724).
SelectObjects ==
    /\ epc = "select"
    /\ LET sel == SelectedObjects(text_objects, table_bbox)
       IN selected_objects' = IF algorithm = "header-position" THEN SortedByX0(sel) ELSE sel
    /\ epc' = "intervals"
    /\ UNCHANGED <<algorithm, text_objects, rect_objects, x_threshold, y_threshold,
                   x_order, y_order, table_bbox, x_intervals, y_intervals,
                   header_objs, pool, used, line_objs, line, matrix, row_index, col_index>>
    /\ UNCHANGED outsideExtract

\* define_threshold divides by zero on an empty selection (lines 700, 710);
\* header-position reads y_intervals[0] (line 730).
IntervalsFail ==
    \/ /\ algorithm = "y-groups"
       /\ selected_objects = <<>>
       /\ (x_threshold = None \/ y_threshold = None)
    \/ /\ algorithm = "header-position"
       /\ selected_objects = <<>>

\* Lines 631-637 and 725-733: the intervals in the order they are walked, the
\* working list, and header-position's first line.
ComputeIntervals ==
    /\ epc = "intervals"
    /\ ~IntervalsFail
    /\ LET yi == InOrder(AlgIntervals(algorithm, "y", selected_objects, rect_objects,
                                      y_threshold), y_order)
           ho == LineObjs(selected_objects, <<>>, yi[1])
       IN /\ y_intervals' = yi
          /\ IF algorithm = "header-position"
                THEN /\ x_intervals' = <<>>
                     /\ header_objs' = ho
                     /\ used' = ho
                     /\ matrix' = <<[i \in DOMAIN ho |-> <<ho[i]>>]>>
                     /\ row_index' = 2
                     /\ pool' = <<>>
                ELSE /\ x_intervals' = InOrder(AlgIntervals(algorithm, "x", selected_objects,
                                                            rect_objects, x_threshold), x_order)
                     /\ header_objs' = <<>>
                     /\ used' = <<>>
                     /\ matrix' = <<>>
                     /\ row_index' = 1
                     /\ pool' = selected_objects
    /\ epc' = "rows"
    /\ UNCHANGED <<algorithm, text_objects, rect_objects, x_threshold, y_threshold,
                   x_order, y_order, table_bbox, selected_objects, line_objs, line,
                   col_index>>
    /\ UNCHANGED outsideExtract

\* An exception leaves get_lines.
ExtractRaise ==
    /\ \/ epc = "bbox" /\ TableBBoxFails(algorithm, text_objects, rect_objects, y_threshold)
       \/ epc = "intervals" /\ IntervalsFail
    /\ epc' = "error"
    /\ UNCHANGED <<algorithm, text_objects, rect_objects, x_threshold, y_threshold,
                   x_order, y_order, table_bbox, selected_objects, x_intervals,
                   y_intervals, header_objs, pool, used, line_objs, line, matrix,
                   row_index, col_index>>
    /\ UNCHANGED outsideExtract

\* The number of cells of a line.
NumColumns == IF algorithm = "header-position" THEN Len(header_objs) ELSE Len(x_intervals)

\* Lines 640-641 and 738-740: a line is begun.
StartLine ==
    /\ epc = "rows"
    /\ row_index <= Len(y_intervals)
    /\ line' = <<>>
    /\ col_index' = 1
    /\ line_objs' = IF algorithm = "header-position"
                       THEN LineObjs(selected_objects, used, y_intervals[row_index])
                       ELSE <<>>
    /\ epc' = "cells"
    /\ UNCHANGED <<algorithm, text_objects, rect_objects, x_threshold, y_threshold,
                   x_order, y_order, table_bbox, selected_objects, x_intervals,
                   y_intervals, header_objs, pool, used, matrix, row_index>>
    /\ UNCHANGED outsideExtract

\* Lines 642-649 and 741-744: one cell is filled.  An empty cell is None in
\* the shared get_lines and [] in header-position: <<>> here for both.
FillCell ==
    /\ epc = "cells"
    /\ col_index <= NumColumns
    /\ IF algorithm = "header-position"
          THEN LET y_objs == YObjs(line_objs, used, header_objs[col_index])
               IN /\ used' = used \o y_objs
                  /\ line' = Append(line, y_objs)
                  /\ pool' = pool
          ELSE LET cell == Cell(pool, x_intervals[col_index], y_intervals[row_index])
               IN /\ line' = Append(line, cell)
                  /\ pool' = RemoveAll(pool, cell)
                  /\ used' = used
    /\ col_index' = col_index + 1
    /\ UNCHANGED <<algorithm, text_objects, rect_objects, x_threshold, y_threshold,
                   x_order, y_order, table_bbox, selected_objects, x_intervals,
                   y_intervals, header_objs, line_objs, matrix, row_index, epc>>
    /\ UNCHANGED outsideExtract

\* Lines 650 and 745: the line is appended.
EndLine ==
    /\ epc = "cells"
    /\ col_index > NumColumns
    /\ matrix' = Append(matrix, line)
    /\ row_index' = row_index + 1
    /\ epc' = "rows"
    /\ UNCHANGED <<algorithm, text_objects, rect_objects, x_threshold, y_threshold,
                   x_order, y_order, table_bbox, selected_objects, x_intervals,
                   y_intervals, header_objs, pool, used, line_objs, line, col_index>>
    /\ UNCHANGED outsideExtract

\* Lines 651 and 750.
ReturnLines ==
    /\ epc = "rows"
    /\ row_index > Len(y_intervals)
    /\ epc' = "done"
    /\ UNCHANGED <<algorithm, text_objects, rect_objects, x_threshold, y_threshold,
                   x_order, y_order, table_bbox, selected_objects, x_intervals,
                   y_intervals, header_objs, pool, used, line_objs, line, matrix,
                   row_index, col_index>>
    /\ UNCHANGED outsideExtract

ExtractNext ==
    \/ ComputeTableBBox
    \/ SelectObjects
    \/ ComputeIntervals
    \/ ExtractRaise
    \/ StartLine
    \/ FillCell
    \/ EndLine
    \/ ReturnLines

SpecExtract == ExtractInit /\ [][ExtractNext]_vars

(***************************************************************************)
(* Properties of the extraction algorithms                                 *)
(***************************************************************************)
\* The cells of the matrix, as <<line, column>> (1-based).
FilledCells == UNION {{<<r, c>> : c \in DOMAIN matrix[r]} : r \in DOMAIN matrix}

\* The cells of the returned matrix that hold the object (the same Python
\* object, not an equal one).
CellsHolding(obj) ==
    {rc \in FilledCells : \E k \in DOMAIN matrix[rc[1]][rc[2]] : matrix[rc[1]][rc[2]][k].id = obj.id}

\* The cells whose test the object passes: its x0 and y0 in the cell's
\* intervals (shared get_lines); in header-position, its own cell of the
\* header line, or a line whose interval holds its y0 under a header anchor
\* that it x-intersects.
CellsMatching(obj) ==
    IF algorithm = "header-position"
        THEN {rc \in FilledCells :
                IF rc[1] = 1
                    THEN header_objs[rc[2]].id = obj.id
                    ELSE /\ y_intervals[rc[1]][1] <= obj.y0 /\ obj.y0 <= y_intervals[rc[1]][2]
                         /\ x_intersects(header_objs[rc[2]], obj)}
        ELSE {rc \in FilledCells :
                /\ x_intervals[rc[2]][1] <= obj.x0 /\ obj.x0 <= x_intervals[rc[2]][2]
                /\ y_intervals[rc[1]][1] <= obj.y0 /\ obj.y0 <= y_intervals[rc[1]][2]}

\* The first cell of a non-empty set in row-major order.
FirstCell(S) == CHOOSE rc \in S : \A other \in S : rc = other \/ PairLess(rc, other)

\* C6: in the matrix get_lines returns (either get_lines), no text object is
\* in more than one cell, and an object sits in the first cell, in row-major
\* order, whose test it passes.
C6_FirstClaimWins ==
    epc = "done" =>
        \A k \in DOMAIN selected_objects :
            LET obj     == selected_objects[k]
                holding == CellsHolding(obj)
                passing == CellsMatching(obj)
            IN /\ Cardinality(holding) <= 1
               /\ holding = IF passing = {} THEN {} ELSE {FirstCell(passing)}

\* Witness for C6: the shared get_lines has returned a matrix in which an
\* object passes the test of two cells and sits in the first.
C6_Witness ==
    /\ epc = "done"
    /\ algorithm = "y-groups"
    /\ \E k \in DOMAIN selected_objects :
          /\ Cardinality(CellsMatching(selected_objects[k])) >= 2
          /\ CellsHolding(selected_objects[k]) = {FirstCell(CellsMatching(selected_objects[k]))}

\* Two boxes share a point.
SharesPoint(a, b) == a[1] <= b[3] /\ b[1] <= a[3] /\ a[2] <= b[4] /\ b[2] <= a[4]

\* C7: selected_objects holds exactly the text objects whose box shares a
\* point with table_bbox.
C7_SelectedIffOverlap ==
    epc \in {"intervals", "rows", "cells", "done"} =>
        \A k \in DOMAIN text_objects :
            (\E j \in DOMAIN selected_objects : selected_objects[j].id = text_objects[k].id)
                <=> SharesPoint(table_bbox, bbox(text_objects[k]))

\* The text objects whose y-group has at least 2 members.
InRowOfTwo ==
    LET gs == group_objects("y", text_objects, y_threshold)
    IN {o \in Range(text_objects) :
          \E i \in DOMAIN gs : o \in Range(gs[i].objects) /\ Len(gs[i].objects) >= 2}

\* C9: the table_bbox of y-groups is the envelope of the text objects whose
\* y-group has at least 2 members.
C9_TableBBoxOfRows ==
    (epc \in {"select", "intervals", "rows", "cells", "done"}
     /\ algorithm \in {"y-groups", "header-position"}
     /\ InRowOfTwo # {})
        => table_bbox = Envelope(InRowOfTwo)

\* Witness for C9: a text object alone in its y-group reaches beyond the
\* computed table_bbox.
C9_Witness ==
    /\ epc = "select"
    /\ algorithm = "y-groups"
    /\ InRowOfTwo # {}
    /\ \E o \in Range(text_objects) \ InRowOfTwo : o.x1 > table_bbox[3]

\* (min, max) a lies within (min, max) b.
Nested(a, b) == a[1] >= b[1] /\ a[2] <= b[2]

\* C10: neither list of intervals of rects-boundaries holds an interval
\* that lies within a different interval of the same list.
C10_NoNestedInterval ==
    (epc \in {"rows", "cells", "done"} /\ algorithm = "rects-boundaries") =>
        /\ \A i, j \in DOMAIN x_intervals : i # j => ~Nested(x_intervals[i], x_intervals[j])
        /\ \A i, j \in DOMAIN y_intervals : i # j => ~Nested(y_intervals[i], y_intervals[j])

\* Witness for C10: a filled rectangle's x interval lies within another's
\* and has been dropped.
C10_Witness ==
    /\ epc = "rows"
    /\ algorithm = "rects-boundaries"
    /\ \E r1, r2 \in Rects(rect_objects) :
          /\ <<r1.x0, r1.x1>> # <<r2.x0, r2.x1>>
          /\ Nested(<<r1.x0, r1.x1>>, <<r2.x0, r2.x1>>)
          /\ <<r1.x0, r1.x1>> \notin Range(x_intervals)
          /\ <<r2.x0, r2.x1>> \in Range(x_intervals)

(***************************************************************************)
(* The geometric predicates, called on their own                           *)
(***************************************************************************)
PredicateCoords == {5 * k : k \in 0..MaxSteps}

PredicateRanges == {r \in PredicateCoords \X PredicateCoords : r[1] <= r[2]}

\* threshold=0 is the default of the three functions.
PredicateThresholds == {Num(0), Num(1), Num(5)}

PredicateInit ==
    /\ \E r1 \in PredicateRanges, r2 \in PredicateRanges, t \in PredicateThresholds :
          call = [min1 |-> r1[1], max1 |-> r1[2], min2 |-> r2[1], max2 |-> r2[2],
                  threshold |-> t]
    /\ predicate = ""
    /\ returned = {}
    /\ GroupIdle
    /\ BackendIdle
    /\ TableIdle
    /\ ExtractIdle
    /\ IntervalsIdle
    /\ RegistryIdle

CallObjectIntercepts ==
    /\ predicate = ""
    /\ predicate' = "object_intercepts"
    /\ returned' = {object_intercepts(call.min1, call.max1, call.min2, call.max2,
                                      call.threshold)}
    /\ UNCHANGED call
    /\ UNCHANGED outsidePredicate

CallObjectContainsCenter ==
    /\ predicate = ""
    /\ predicate' = "object_contains_center"
    /\ returned' = {object_contains_center(call.min1, call.max1, call.min2, call.max2,
                                           call.threshold)}
    /\ UNCHANGED call
    /\ UNCHANGED outsidePredicate

CallObjectContains ==
    /\ predicate = ""
    /\ predicate' = "object_contains"
    /\ returned' = {object_contains(call.min1, call.max1, call.min2, call.max2,
                                    call.threshold)}
    /\ UNCHANGED call
    /\ UNCHANGED outsidePredicate

PredicateNext == CallObjectIntercepts \/ CallObjectContainsCenter \/ CallObjectContains

SpecPredicate == PredicateInit /\ [][PredicateNext]_vars

(***************************************************************************)
(* Properties of the geometric predicates                                  *)
(***************************************************************************)
\* The center of the call's first range lies within its second range
\* expanded by the threshold (a whole number in every call of PredicateInit)
\* on both sides, bounds included.  Lengths are doubled: twice the center of
\* a range is the sum of its ends.
CenterWithinExpanded ==
    LET t == call.threshold.num
    IN (call.min1 + call.max1) \in (2 * (call.min2 - t))..(2 * (call.max2 + t))

\* The center of the range 5..15, which is 10, tested against the range
\* 0..10 with threshold 0.
CenterOfBAgainstA ==
    call = [min1 |-> 5, max1 |-> 15, min2 |-> 0, max2 |-> 10, threshold |-> Num(0)]

\* C8, first reading: object_contains_center is true iff the first range's
\* center lies within the second range expanded by the threshold, and the
\* center of 5..15 tested against 0..10 gives false at threshold 0.
C8_CenterOfBOutsideA ==
    predicate = "object_contains_center" =>
        /\ returned = {CenterWithinExpanded}
        /\ CenterOfBAgainstA => returned = {FALSE}

\* C8, second reading: object_contains_center is true iff the first range's
\* center lies within the second range expanded by the threshold, bounds
\* included, so the center of 5..15 tested against 0..10 gives true at
\* threshold 0.
C8_CenterOfBOnBoundOfA ==
    predicate = "object_contains_center" =>
        /\ returned = {CenterWithinExpanded}
        /\ CenterOfBAgainstA => returned = {TRUE}

\* Witness for C8: the call on 5..15 against 0..10 at threshold 0 returned.
C8_Witness ==
    /\ predicate = "object_contains_center"
    /\ CenterOfBAgainstA
    /\ returned = {TRUE}

(***************************************************************************)
(* Properties of rects-boundaries without a filled rectangle               *)
(***************************************************************************)
\* C11: rects-boundaries on a page with no filled rectangle never returns a
\* matrix, whatever the text objects are (none included): get_lines raises.
C11_NoRectsRaises ==
    (algorithm = "rects-boundaries" /\ Rects(rect_objects) = {} /\ epc # "idle")
        => epc # "done"

(***************************************************************************)
(* extract_intervals.  A str is a sequence of one-character strings.       *)
(***************************************************************************)
\* text.split(sep) for a one-character sep: the pieces between the
\* separators, empty pieces included.
RECURSIVE split(_, _)
split(txt, sep) ==
    IF \A i \in DOMAIN txt : txt[i] # sep THEN <<txt>>
    ELSE LET at == Min({i \in DOMAIN txt : txt[i] = sep})
         IN <<SubSeq(txt, 1, at - 1)>> \o split(SubSeq(txt, at + 1, Len(txt)), sep)

DigitValue(c) ==
    CASE c = "0" -> 0 [] c = "1" -> 1 [] c = "2" -> 2 [] c = "3" -> 3 [] c = "4" -> 4
      [] c = "5" -> 5 [] c = "6" -> 6 [] c = "7" -> 7 [] c = "8" -> 8 [] c = "9" -> 9

IsDigit(c) == c \in {"0", "1", "2", "3", "4", "5", "6", "7", "8", "9"}

\* int(s) raises ValueError unless s, stripped, is a literal: over the
\* characters of IntervalChars, a non-empty run of digits.
IntFails(s) == strip(s) = <<>> \/ \E i \in DOMAIN strip(s) : ~IsDigit(strip(s)[i])

\* int(s) for a run of digits.
RECURSIVE DigitsValue(_)
DigitsValue(s) ==
    IF s = <<>> THEN 0 ELSE 10 * DigitsValue(SubSeq(s, 1, Len(s) - 1)) + DigitValue(s[Len(s)])

int(s) == DigitsValue(strip(s))

\* list(range(a, b))
range(a, b) == [i \in 1..(b - a) |-> a + i - 1]

\* Lines 74-81: one item of the text raises ValueError (a bad literal, or a
\* split on "-" that does not give two pieces).
ItemFails(item) ==
    LET value == strip(item)
    IN IF \E i \in DOMAIN value : value[i] = "-"
          THEN LET parts == split(value, "-")
               IN Len(parts) # 2 \/ IntFails(strip(parts[1])) \/ IntFails(strip(parts[2]))
          ELSE IntFails(strip(value))

\* Lines 74-81: what one item appends to result.
ItemNumbers(item) ==
    LET value == strip(item)
    IN IF \E i \in DOMAIN value : value[i] = "-"
          THEN LET parts       == split(value, "-")
                   start_value == int(strip(parts[1]))
                   end_value   == int(strip(parts[2]))
               IN range(start_value, end_value + 1)
          ELSE <<int(strip(value))>>

\* The elements of a set of integers in ascending order.
Ascending(S) ==
    [r \in 1..Cardinality(S) |-> CHOOSE n \in S : Cardinality({e \in S : e < n}) = r - 1]

\* list(set(lst)): the distinct elements, in an order the language leaves to
\* the implementation: any order.
ListOfSet(lst) ==
    LET asc == Ascending(Range(lst))
    IN {[i \in DOMAIN asc |-> asc[p[i]]] : p \in Permutations(DOMAIN asc)}

\* lst.sort() on integers.
SortNumbers(lst) == StableSort(lst, [i \in DOMAIN lst |-> <<lst[i], 0>>])

\* Mutant: the duplicates are kept whatever repeat is.
AfterLoop_repeat(lst, rep, srt) ==
    IF srt THEN {SortNumbers(lst)} ELSE {lst}

\* Lines 83-88: the lists extract_intervals may return for the parsed lst.
AfterLoop(lst, rep, srt) ==
    LET unique == IF ~rep THEN ListOfSet(lst) ELSE {lst}
    IN IF srt THEN {SortNumbers(u) : u \in unique} ELSE unique

(***************************************************************************)
(* Inputs of extract_intervals                                             *)
(***************************************************************************)
IntervalChars == {"1", "2", ",", "-", " "}

\* Texts of the docstring and of the documentation.
DocTexts ==
    {<<"1", ",", "2", ",", "3">>,
     <<"1", ",", "2", ",", "5", "-", "1", "0">>,
     <<"1", ",", "2", ",", "5", "-", "1", "0", ",", "6", ",", "7">>,
     <<"5", "-", "1", "0", ",", "1", ",", "2">>}

\* What the loop of lines 73-81 appends for the items from index k on, when
\* none of them fails.
RECURSIVE NumbersFrom(_, _)
NumbersFrom(vals, k) ==
    IF k > Len(vals) THEN <<>> ELSE ItemNumbers(vals[k]) \o NumbersFrom(vals, k + 1)

TextFails(txt) == \E k \in DOMAIN split(txt, ",") : ItemFails(split(txt, ",")[k])

\* The texts tried: short ones over IntervalChars and the documented ones,
\* naming at most MaxNamed integers.
IntervalTexts ==
    {t \in UNION {[1..n -> IntervalChars] : n \in 0..MaxTextLen} \cup DocTexts :
        TextFails(t) \/ Cardinality(Range(NumbersFrom(split(t, ","), 1))) <= MaxNamed}

IntervalsInit ==
    /\ text \in IntervalTexts
    /\ repeat \in BOOLEAN
    /\ sort \in BOOLEAN
    \* Lines 72-73.
    /\ values = split(text, ",")
    /\ value_index = 1
    /\ numbers = <<>>
    /\ ipc = "loop"
    /\ GroupIdle
    /\ BackendIdle
    /\ TableIdle
    /\ ExtractIdle
    /\ PredicateIdle
    /\ RegistryIdle

\* Lines 73-81: one item is parsed and appended.
ParseItem ==
    /\ ipc = "loop"
    /\ value_index <= Len(values)
    /\ ~ItemFails(values[value_index])
    /\ numbers' = numbers \o ItemNumbers(values[value_index])
    /\ value_index' = value_index + 1
    /\ UNCHANGED <<text, repeat, sort, values, ipc>>
    /\ UNCHANGED outsideIntervals

\* Lines 76-81: ValueError.
ParseRaise ==
    /\ ipc = "loop"
    /\ value_index <= Len(values)
    /\ ItemFails(values[value_index])
    /\ ipc' = "error"
    /\ UNCHANGED <<text, repeat, sort, values, value_index, numbers>>
    /\ UNCHANGED outsideIntervals

\* Lines 83-88.
ReturnIntervals ==
    /\ ipc = "loop"
    /\ value_index > Len(values)
    /\ numbers' \in AfterLoop(numbers, repeat, sort)
    /\ ipc' = "done"
    /\ UNCHANGED <<text, repeat, sort, values, value_index>>
    /\ UNCHANGED outsideIntervals

IntervalsNext == ParseItem \/ ParseRaise \/ ReturnIntervals

SpecIntervals == IntervalsInit /\ [][IntervalsNext]_vars

(***************************************************************************)
(* Properties of extract_intervals                                         *)
(***************************************************************************)
\* The integers named by the items of the text: each single integer, and
\* every integer of each inclusive start-end range.
Named ==
    UNION {LET item  == strip(values[k])
               parts == split(item, "-")
           IN IF Len(parts) = 1 THEN {int(item)} ELSE int(parts[1])..int(parts[2]) :
           k \in DOMAIN values}

\* The integers of the text in the order the text names them (a repeated
\* integer at its first place only, unless repeats are kept).
RECURSIVE FirstOccurrences(_)
FirstOccurrences(lst) ==
    IF lst = <<>> THEN <<>>
    ELSE LET head == FirstOccurrences(SubSeq(lst, 1, Len(lst) - 1))
         IN IF lst[Len(lst)] \in Range(head) THEN head ELSE Append(head, lst[Len(lst)])

InTextOrder == IF repeat THEN NumbersFrom(values, 1) ELSE FirstOccurrences(NumbersFrom(values, 1))

\* C12: with sort disabled, extract_intervals returns the page numbers in the
\* order the text names them; "5-10,1,2" gives [5,6,7,8,9,10,1,2].
C12_SortDisabledKeepsOrder ==
    (ipc = "done" /\ ~sort) =>
        /\ numbers = InTextOrder
        /\ text = <<"5", "-", "1", "0", ",", "1", ",", "2">>
              => numbers = <<5, 6, 7, 8, 9, 10, 1, 2>>

\* C13: with the default options (repeat off, sort on) the list returned is
\* strictly ascending, so without duplicates, and holds exactly the integers
\* the text names; "1,2,5-10,6,7" gives [1,2,5,6,7,8,9,10].
C13_DefaultSortedUnique ==
    (ipc = "done" /\ ~repeat /\ sort) =>
        /\ \A i \in 1..(Len(numbers) - 1) : numbers[i] < numbers[i + 1]
        /\ Range(numbers) = Named
        /\ text = <<"1", ",", "2", ",", "5", "-", "1", "0", ",", "6", ",", "7">>
              => numbers = <<1, 2, 5, 6, 7, 8, 9, 10>>

\* Witness for C13: the documented text with a repeated range has been
\* parsed with the default options.
C13_Witness ==
    /\ ipc = "done"
    /\ ~repeat /\ sort
    /\ text = <<"1", ",", "2", ",", "5", "-", "1", "0", ",", "6", ",", "7">>
    /\ numbers = <<1, 2, 5, 6, 7, 8, 9, 10>>

(***************************************************************************)
(* ends_before ahead of starts_after                                       *)
(***************************************************************************)
\* C20: with both matchers given, an object that matches ends_before before
\* the first starts_after match has no effect: it does not end the
\* extraction, and the pages go on being scanned and yielded until
\* starts_after has matched and ends_before matches at or after that.
C20_EarlyEndIgnored ==
    (starts_after # NoMatcher /\ ends_before # NoMatcher /\ h_early # 0) =>
        /\ h_start = <<0, 0>> => (~finished /\ Included = {})
        /\ finished => (h_start # <<0, 0>> /\ h_cut # <<0, 0>> /\ ~PairLess(h_cut, h_start)
                          /\ h_early <= h_start[1])
        /\ (bpc = "done" /\ ~finished) => page_number = number_of_pages
        /\ bpc = "done" => h_yields = h_loaded

\* Witness for C20: ends_before matched on the first page before any
\* starts_after match, starts_after matched on a later page, ends_before
\* matched after that and the extraction is over.
C20_Witness ==
    /\ bpc = "done"
    /\ finished
    /\ h_early = 1
    /\ h_start[1] = 2
    /\ PairLess(h_start, h_cut)
    /\ h_yields >= 2

(***************************************************************************)
(* Properties of the groups group_objects returns                          *)
(***************************************************************************)
\* C17: every Group that group_objects returns carries the threshold the
\* clustering used: its threshold field equals the threshold, given or
\* derived, that decided the merges.
C17_GroupsCarryThreshold ==
    gpc = "done" =>
        \A i \in DOMAIN result : result[i].threshold * threshold.den = threshold.num

\* C18: the merge loop reaches a fixpoint: for a threshold >= 0 and objects
\* whose min is at most their max, no two distinct returned groups have
\* envelopes that intercept under the threshold, the pairs whose earlier group
\* was passed over before the later one grew included.
C18_NoInterceptingGroups ==
    (gpc = "done" /\ threshold.num >= 0) =>
        \A i, j \in DOMAIN result :
            i # j => ~Intercepting(axis, result, i, j, threshold)

\* Witness for C18: with a threshold >= 0 the first group was passed over
\* and a later group grew after that, and the groups were returned.
C18_Witness ==
    /\ gpc = "done"
    /\ threshold.num >= 0
    /\ Len(result) >= 2
    /\ \E i \in DOMAIN result : i >= 2 /\ Len(result[i].objects) >= 2

\* The places an object takes in the groups of gs.
PlacesOf(gs, obj) ==
    {<<i, k>> \in (DOMAIN gs) \X (1..Len(objects)) :
        k \in DOMAIN gs[i].objects /\ gs[i].objects[k] = obj}

\* C19: group_objects partitions its input: every input object is in exactly
\* one returned group, once; no group is empty; the groups hold nothing else.
C19_Partition ==
    gpc = "done" =>
        /\ \A k \in DOMAIN objects : Cardinality(PlacesOf(result, objects[k])) = 1
        /\ \A i \in DOMAIN result :
              /\ result[i].objects # <<>>
              /\ Range(result[i].objects) \subseteq Range(objects)

\* Witness for C19: three objects, two of them equal in everything but
\* identity, were grouped into two groups.
C19_Witness ==
    /\ gpc = "done"
    /\ Len(objects) = 3
    /\ Len(result) = 2
    /\ \E k, l \in DOMAIN objects :
          k # l /\ [objects[k] EXCEPT !.id = 0] = [objects[l] EXCEPT !.id = 0]

(***************************************************************************)
(* Order of the objects of a page                                          *)
(***************************************************************************)
\* obj comes above other on the page: PDFMiner's y grows upwards, PyMuPDF's
\* downwards.
Above(be, obj, other) ==
    IF be = "pdfminer.six" THEN obj.y0 > other.y0 ELSE obj.y0 < other.y0

\* C15: for both backends the list of a page that the scan runs over is in
\* reading order: top to bottom, and objects at the same vertical position
\* from left to right by x0, whatever the order the engine gave them in.
C15_ReadingOrder ==
    bpc = "scan" =>
        \A i, j \in DOMAIN objs :
            i < j => \/ Above(backend, objs[i], objs[j])
                     \/ (objs[i].y0 = objs[j].y0 /\ objs[i].x0 <= objs[j].x0)

(***************************************************************************)
(* y-groups on a grid of text objects                                      *)
(***************************************************************************)
\* PDFBackend.get_cell_text: the texts of the cell's objects, stripped, in
\* y order, joined by line breaks.
RECURSIVE JoinLines(_)
JoinLines(texts) ==
    IF texts = <<>> THEN <<>>
    ELSE IF Len(texts) = 1 THEN texts[1]
    ELSE texts[1] \o <<"\n">> \o JoinLines(Tail(texts))

\* Mutant of get_cell_text: the texts are joined as they are, not stripped.
get_cell_text_raw(yo, cell) ==
    IF cell = <<>> THEN <<>>
    ELSE LET ordered == StableSort(cell, [i \in DOMAIN cell |->
                                            <<IF yo = 1 THEN cell[i].y0 ELSE 0 - cell[i].y0, 0>>])
         IN JoinLines([i \in DOMAIN ordered |-> ordered[i].text])

get_cell_text(yo, cell) ==
    IF cell = <<>> THEN <<>>
    ELSE LET ordered == StableSort(cell, [i \in DOMAIN cell |->
                                            <<IF yo = 1 THEN cell[i].y0 ELSE 0 - cell[i].y0, 0>>])
         IN JoinLines([i \in DOMAIN ordered |-> strip(ordered[i].text)])

\* The ways the objects of a grid are sized and worded: the widths of the
\* objects of odd and of even rows, the height of all, and the text.
GridStyles ==
    {[odd |-> w[1], even |-> w[2], height |-> h, text |-> t] :
        w \in {<<1, 1>>, <<1, 2>>, <<0, 0>>}, h \in {0, 1}, t \in {<<"a">>, <<"a", " ">>}}

\* The text object at row r and column c of a grid that starts at `origin`:
\* columns and rows are 4 apart, more than every width, height and threshold
\* tried.
GridBox(origin, st, r, c) ==
    [x0 |-> origin + 4 * (c - 1),
     x1 |-> origin + 4 * (c - 1) + (IF r % 2 = 1 THEN st.odd ELSE st.even),
     y0 |-> origin + 4 * (r - 1),
     y1 |-> origin + 4 * (r - 1) + st.height,
     text |-> st.text]

\* The grid's objects in reading order (the order of PyMuPDFKey).
GridList(origin, st, nr, nc) ==
    [k \in 1..(nr * nc) |-> GridBox(origin, st, ((k - 1) \div nc) + 1, ((k - 1) % nc) + 1)]

\* YGroupsAlgorithm on a grid of R >= 1 rows and C >= 2 columns, with
\* x_order = y_order = 1; the objects in reading order or in the reverse.
GridInit ==
    /\ algorithm = "y-groups"
    /\ \E origin \in {0, 1}, st \in GridStyles, nr \in 1..MaxGridRows, nc \in 2..MaxGridCols,
          backwards \in BOOLEAN :
          LET lst == ObjectList(GridList(origin, st, nr, nc))
          IN text_objects = IF backwards THEN Reversed(lst) ELSE lst
    /\ rect_objects = {}
    /\ x_threshold \in ExtractThresholds
    /\ y_threshold \in ExtractThresholds
    /\ x_order = 1
    /\ y_order = 1
    /\ table_bbox = <<0, 0, 0, 0>>
    /\ selected_objects = <<>>
    /\ x_intervals = <<>>
    /\ y_intervals = <<>>
    /\ header_objs = <<>>
    /\ pool = <<>>
    /\ used = <<>>
    /\ line_objs = <<>>
    /\ line = <<>>
    /\ matrix = <<>>
    /\ row_index = 0
    /\ col_index = 0
    /\ epc = "bbox"
    /\ GroupIdle
    /\ BackendIdle
    /\ TableIdle
    /\ PredicateIdle
    /\ IntervalsIdle
    /\ RegistryIdle

SpecGrid == GridInit /\ [][ExtractNext]_vars

(***************************************************************************)
(* Properties of y-groups on a grid                                        *)
(***************************************************************************)
\* The row and the column of the grid an object is at, and the grid's size.
GridRow(obj) == (obj.y0 \div 4) + 1
GridCol(obj) == (obj.x0 \div 4) + 1
GridRows == Max({GridRow(text_objects[k]) : k \in DOMAIN text_objects})
GridCols == Max({GridCol(text_objects[k]) : k \in DOMAIN text_objects})

\* The matrix has GridRows lines of GridCols cells, and the cell at (r, c)
\* holds the object at (r, c) of the grid and nothing else.
MatrixIsGrid ==
    /\ Len(matrix) = GridRows
    /\ \A r \in DOMAIN matrix : Len(matrix[r]) = GridCols
    /\ \A k \in DOMAIN text_objects :
          LET obj == text_objects[k]
          IN /\ GridRow(obj) \in DOMAIN matrix
             /\ GridCol(obj) \in DOMAIN matrix[GridRow(obj)]
             /\ matrix[GridRow(obj)][GridCol(obj)] = <<obj>>

\* C14, as worded: on a grid of R >= 1 rows and C >= 2 columns separated by
\* more than the thresholds, get_lines of y-groups returns an R x C matrix
\* whose cell (r, c) holds exactly the object at (r, c), and each cell string
\* equals that object's text.
C14_GridMatrix_AnyObjects ==
    epc = "done" =>
        /\ MatrixIsGrid
        /\ \A r \in DOMAIN matrix : \A c \in DOMAIN matrix[r] : \A k \in DOMAIN matrix[r][c] :
              get_cell_text(y_order, matrix[r][c]) = matrix[r][c][k].text

\* The objects have a width and a height.
BoxesHaveExtent ==
    \A k \in DOMAIN text_objects :
        text_objects[k].x0 < text_objects[k].x1 /\ text_objects[k].y0 < text_objects[k].y1

\* C14, for objects that have a width and a height: get_lines never raises,
\* the matrix is the grid, and each cell string equals its object's text
\* without the leading and trailing whitespace.
C14_GridMatrix ==
    BoxesHaveExtent =>
        /\ epc # "error"
        /\ epc = "done" =>
              /\ MatrixIsGrid
              /\ \A r \in DOMAIN matrix : \A c \in DOMAIN matrix[r] : \A k \in DOMAIN matrix[r][c] :
                    get_cell_text(y_order, matrix[r][c]) = strip(matrix[r][c][k].text)

\* Witness for C14: a grid of 2 rows and 3 columns of objects of different
\* widths, given in reverse order, has been extracted.
C14_Witness ==
    /\ epc = "done"
    /\ BoxesHaveExtent
    /\ Len(text_objects) = 6
    /\ Len(matrix) = 2
    /\ text_objects[1].y0 > text_objects[6].y0
    /\ text_objects[1].x1 - text_objects[1].x0 = 2
    /\ get_cell_text(y_order, matrix[1][1]) = <<"a">>

(***************************************************************************)
(* get_algorithm and the registry of extraction algorithms                 *)
(***************************************************************************)
\* The classes of the module: parent class and the `name` of the class body
\* ({} when the body sets none).
ModuleClasses ==
    [c \in {"PDFBackend", "ExtractionAlgorithm", "YGroupsAlgorithm",
            "HeaderPositionAlgorithm", "RectsBoundariesAlgorithm"} |->
        CASE c = "PDFBackend" -> [parent |-> "object", own |-> {}]
          [] c = "ExtractionAlgorithm" -> [parent |-> "object", own |-> {}]
          [] c = "YGroupsAlgorithm" -> [parent |-> "ExtractionAlgorithm", own |-> {"y-groups"}]
          [] c = "HeaderPositionAlgorithm" -> [parent |-> "YGroupsAlgorithm", own |-> {"header-position"}]
          [] c = "RectsBoundariesAlgorithm" -> [parent |-> "ExtractionAlgorithm", own |-> {"rects-boundaries"}]]

\* cls.__subclasses__(): the classes whose parent is cls.
DirectSubclasses(cs, cls) == {c \in DOMAIN cs : cs[c].parent = cls}

\* Mutant of subclasses: the children only, not their descendants.
subclasses_children(cs, cls) == DirectSubclasses(cs, cls)

\* subclasses(cls): the children and, recursively, theirs.
RECURSIVE subclasses(_, _)
subclasses(cs, cls) ==
    DirectSubclasses(cs, cls)
        \cup UNION {subclasses(cs, child) : child \in DirectSubclasses(cs, cls)}

\* issubclass(cls, base) for a class.
RECURSIVE issubclass(_, _, _)
issubclass(cs, cls, base) ==
    \/ cls = base
    \/ (cls \in DOMAIN cs /\ issubclass(cs, cs[cls].parent, base))

\* Class.name: the attribute of the class body, or the one inherited.
RECURSIVE ClassName(_, _)
ClassName(cs, cls) ==
    IF cs[cls].own # {} THEN CHOOSE n \in cs[cls].own : TRUE
    ELSE ClassName(cs, cs[cls].parent)

\* {Class.name: Class for Class in order}: a later class of the same name
\* replaces the value and keeps the key's place.
RECURSIVE DictOf(_, _, _)
DictOf(cs, order, acc) ==
    IF order = <<>> THEN acc
    ELSE LET key == ClassName(cs, Head(order))
             item == [name |-> key, class |-> Head(order)]
             at == {i \in DOMAIN acc : acc[i].name = key}
         IN DictOf(cs, Tail(order),
                   IF at = {} THEN Append(acc, item)
                   ELSE [i \in DOMAIN acc |-> IF i \in at THEN item ELSE acc[i]])

\* The orders a set can be iterated in.
OrdersOf(S) == {f \in [1..Cardinality(S) -> S] : Range(f) = S}

\* algorithms(): the dict of the subclasses of ExtractionAlgorithm, for every
\* iteration order of the set that subclasses returns.
algorithms(cs) ==
    {DictOf(cs, order, <<>>) : order \in OrdersOf(subclasses(cs, "ExtractionAlgorithm"))}

\* sep.join(names), as the sequence of its pieces.
RECURSIVE join(_, _)
join(sep, names) ==
    IF names = <<>> THEN <<>>
    ELSE IF Len(names) = 1 THEN names
    ELSE <<names[1], sep>> \o join(sep, Tail(names))

\* 'Unknown algorithm "{}" (options are: {})'.format(algorithm, ", ".join(keys))
UnknownAlgorithm(req, avail) ==
    [kind |-> "raise", type |-> "ValueError",
     message |-> <<"Unknown algorithm \"", req.name, "\" (options are: ">>
                 \o join(", ", [i \in DOMAIN avail |-> avail[i].name]) \o <<")">>]

\* The body of get_algorithm after algorithms() (lines 809-822).  issubclass
\* of something that is not a class raises TypeError.
Lookup(cs, req, avail) ==
    IF req.kind = "str"
    THEN IF \A i \in DOMAIN avail : avail[i].name # req.name
         THEN UnknownAlgorithm(req, avail)
         ELSE [kind |-> "return",
               class |-> avail[CHOOSE i \in DOMAIN avail : avail[i].name = req.name].class]
    ELSE IF req.kind = "other"
    THEN [kind |-> "raise", type |-> "TypeError", message |-> <<>>]
    ELSE IF issubclass(cs, req.name, "ExtractionAlgorithm")
    THEN [kind |-> "return", class |-> req.name]
    ELSE UnknownAlgorithm(req, avail)

\* ---- inputs -------------------------------------------------------------
\* The ids of the algorithms defined outside the module.
UserClassId(k) ==
    <<"UserAlgorithm1", "UserAlgorithm2", "UserAlgorithm3", "UserAlgorithm4">>[k]

\* The class trees: the module's classes and up to MaxUserClasses algorithms
\* defined outside it, each a subclass of an algorithm class defined before
\* it, with a name of its own or, under a named class, the inherited one.
RECURSIVE ClassTrees(_)
ClassTrees(n) ==
    IF n = 0 THEN {ModuleClasses}
    ELSE LET smaller == ClassTrees(n - 1)
         IN smaller \cup
            {[c \in DOMAIN cs \cup {UserClassId(n)} |->
                 IF c = UserClassId(n) THEN [parent |-> p, own |-> o] ELSE cs[c]] :
               <<cs, p, o>> \in
                 {<<cs, p, o>> \in smaller \X ({UserClassId(k) : k \in 1..(n - 1)}
                                              \cup DOMAIN ModuleClasses)
                                          \X {{}, {"custom"}, {"y-groups"}} :
                     /\ p \in DOMAIN cs
                     /\ UserClassId(n) \notin DOMAIN cs
                     /\ (n = 1 \/ UserClassId(n - 1) \in DOMAIN cs)
                     /\ issubclass(cs, p, "ExtractionAlgorithm")
                     /\ (o = {} => p # "ExtractionAlgorithm")}}

\* The arguments tried: names, classes, and something that is neither.
Requests(cs) ==
    {[kind |-> "str", name |-> n] :
        n \in {"y-groups", "header-position", "rects-boundaries", "custom",
               "not-a-real-algorithm", "", "YGroupsAlgorithm"}}
    \cup {[kind |-> "class", name |-> c] : c \in DOMAIN cs}
    \cup {[kind |-> "other", name |-> "None"]}

\* ---- actions ------------------------------------------------------------
RegistryInit ==
    /\ classes \in ClassTrees(MaxUserClasses)
    /\ requested \in Requests(classes)
    /\ available_algorithms = <<>>
    /\ outcome = {}
    /\ apc = "call"
    /\ GroupIdle
    /\ BackendIdle
    /\ TableIdle
    /\ ExtractIdle
    /\ PredicateIdle
    /\ IntervalsIdle

\* available_algorithms = algorithms() (line 807).
ListAlgorithms ==
    /\ apc = "call"
    /\ available_algorithms' \in algorithms(classes)
    /\ apc' = "lookup"
    /\ UNCHANGED <<classes, requested, outcome>>
    /\ UNCHANGED outsideRegistry

\* The name is registered, or the argument is an algorithm class (lines 813,
\* 815-816).
ReturnAlgorithm ==
    /\ apc = "lookup"
    /\ Lookup(classes, requested, available_algorithms).kind = "return"
    /\ outcome' = {Lookup(classes, requested, available_algorithms)}
    /\ apc' = "done"
    /\ UNCHANGED <<classes, requested, available_algorithms>>
    /\ UNCHANGED outsideRegistry

\* Every other argument raises (lines 810-812, 815, 818-821).
RaiseUnknown ==
    /\ apc = "lookup"
    /\ Lookup(classes, requested, available_algorithms).kind = "raise"
    /\ outcome' = {Lookup(classes, requested, available_algorithms)}
    /\ apc' = "done"
    /\ UNCHANGED <<classes, requested, available_algorithms>>
    /\ UNCHANGED outsideRegistry

RegistryNext == ListAlgorithms \/ ReturnAlgorithm \/ RaiseUnknown

SpecRegistry == RegistryInit /\ [][RegistryNext]_vars

(***************************************************************************)
(* Properties of get_algorithm                                             *)
(***************************************************************************)
\* The names of the algorithm classes: of every class other than
\* ExtractionAlgorithm that issubclass says is one.
RegisteredNames ==
    {ClassName(classes, c) :
        c \in {d \in DOMAIN classes :
                 d # "ExtractionAlgorithm" /\ issubclass(classes, d, "ExtractionAlgorithm")}}

\* C16: get_algorithm of a name that is not registered raises ValueError with
\* a message that lists every registered name, "y-groups" among them, and it
\* never returns an implementation.
C16_UnknownNameRaises ==
    (apc = "done" /\ requested.kind = "str" /\ requested.name \notin RegisteredNames) =>
        \A o \in outcome :
            /\ o.kind = "raise"
            /\ o.type = "ValueError"
            /\ "y-groups" \in Range(o.message)
            /\ RegisteredNames \subseteq Range(o.message)

\* Witness for C16: "not-a-real-algorithm" was asked for while an algorithm
\* defined outside the module is registered, and the call has raised.
C16_Witness ==
    /\ apc = "done"
    /\ requested = [kind |-> "str", name |-> "not-a-real-algorithm"]
    /\ "custom" \in RegisteredNames
    /\ \E o \in outcome : o.kind = "raise" /\ "header-position" \in Range(o.message)

====
